---- MODULE Spec2Model ----
(***************************************************************************)
(* A model of vec-arena: the object arena `Arena<T>` of src/src/lib.rs     *)
(* (a Vec of slots whose vacant slots form a singly linked list) and the   *)
(* occupancy tracker `Bitmap` of src/src/bitmap.rs (bit masks whose        *)
(* partially vacant blocks form a doubly linked list).                     *)
(*                                                                         *)
(* `usize` is modelled as an unsigned integer of WordBits bits and `!0`   *)
(* as the all-ones word UsizeMax.  A block of the bitmap covers Bits       *)
(* slots, the low Bits bits of its mask word (in the source a block covers *)
(* every bit of the word), so that a full block is one whose low Bits bits *)
(* are ones, which `!0` stored as a mask is too.                           *)
(***************************************************************************)
EXTENDS Integers, Sequences, FiniteSets, TLC

(***************************************************************************)
(* Bounds of the model.                                                    *)
(***************************************************************************)
\* Width of `usize` in bits (the source runs on 32 or 64 bits).
WordBits == 4
\* Binary logarithm of the number of slots of one block of the bitmap: the
\* source's bits() is 32 or 64, a power of two whatever the word is.
BlockShift == 1
\* Largest number of slots the modelled arena's Vec grows to.
MaxSlots == 3
\* Largest number of inserts between two clears of the modelled arena.
MaxInserts == 4
\* Number of distinct objects stored in the modelled arena.
NumValues == 2
\* Largest number of slots the modelled bitmap is grown to.
MaxLen == 5
\* Largest capacity the modelled arena's Vec is given.
MaxCap == 3
\* Largest number of slots the bitmap is grown to by the inserts of an arena.
MaxProtocolLen == 8

RECURSIVE Pow2(_)
Pow2(n) == IF n = 0 THEN 1 ELSE 2 * Pow2(n - 1)

\* `!0`: usize::MAX, the sentinel of both linked lists and the full bit mask.
UsizeMax == Pow2(WordBits) - 1

Usize == 0 .. UsizeMax

Values == 1 .. NumValues

(***************************************************************************)
(* Option<T>: None is the empty sequence, Some(v) the one-element one.     *)
(***************************************************************************)
None == << >>

Some(v) == << v >>

(***************************************************************************)
(* enum Slot<T>                                                            *)
(***************************************************************************)
Vacant(next) == [tag |-> "Vacant", x |-> next]

Occupied(object) == [tag |-> "Occupied", x |-> object]

VARIABLES
    slots,      \* Arena::slots, the Vec<Slot<T>>; index i is slots[i + 1]
    len,        \* Arena::len, the number of occupied slots
    head,       \* Arena::head, the first vacant slot or !0
    cap,        \* Vec::capacity of Arena::slots
    covered,    \* reference model: the inserts that with_capacity or a
                \* reserve made room for, and how many of them are left
    last,       \* the last call on the arena: its arguments and its result
    prev,       \* the call before the last one
    map,        \* reference model: the sparse map from index to value
    vacated,    \* reference model: the vacated indices, most recent first
    nIns,       \* inserts since the arena was created or last cleared
    nRem,       \* successful removes since then
    cleared,    \* reference model: clear has been called on the arena
    copy        \* the clone taken of the arena, an arena of its own

arenaVars ==
    << slots, len, head, cap, covered, last, prev, map, vacated, nIns, nRem, cleared,
       copy >>

VARIABLES
    bitmap,             \* the Bitmap: [data, len, occupied, head]
    debug_assertions,   \* the build: debug (checked arithmetic) or release
    blast,              \* the last call on the bitmap: its arguments and its result
    held,               \* reference model: the slots acquired and not yet released
    lastFreed           \* reference model: when the last call is an acquire that
                        \* followed a release out of a fully occupied block, the
                        \* slot released; !0 otherwise

bitmapVars == << bitmap, debug_assertions, blast, held, lastFreed >>

vars == << arenaVars, bitmapVars >>

(***************************************************************************)
(* Arena<T>, src/src/lib.rs.  The operations are written over an arena     *)
(* value a = [slots, len, head] and return the arena after the call with   *)
(* the call's result.                                                      *)
(***************************************************************************)
\* Arena::new
ArenaNew == [slots |-> << >>, len |-> 0, head |-> UsizeMax]

\* Arena::len
ArenaLen(a) == a.len

\* Arena::is_empty
IsEmpty(a) == a.len = 0

\* A variant of next_vacant that ignores the list of vacant slots.
NextVacantIsLen(a) == a.len

\* Arena::next_vacant
NextVacant(a) == IF a.head = UsizeMax THEN a.len ELSE a.head

\* Arena::get (and get_mut, which has the same body): Vec::get, then the match.
Get(a, index) ==
    IF index >= Len(a.slots) THEN None
    ELSE IF a.slots[index + 1].tag = "Vacant" THEN None
    ELSE Some(a.slots[index + 1].x)

\* Arena::get_mut
GetMut(a, index) ==
    IF index >= Len(a.slots) THEN None
    ELSE IF a.slots[index + 1].tag = "Vacant" THEN None
    ELSE Some(a.slots[index + 1].x)

\* A variant of indexing in the manner of get_unchecked: it trusts a slot in
\* bounds to be occupied.
IndexOpUnchecked(a, index) ==
    IF index >= Len(a.slots) THEN [panic |-> TRUE, value |-> None]
    ELSE [panic |-> FALSE, value |-> Some(a.slots[index + 1].x)]

\* Index::index, `arena[index]`: get(index).expect(..) panics on None.
IndexOp(a, index) ==
    IF Get(a, index) = None THEN [panic |-> TRUE, value |-> None]
    ELSE [panic |-> FALSE, value |-> Get(a, index)]

\* IndexMut::index_mut: get_mut(index).expect(..) panics on None.
IndexMutOp(a, index) ==
    IF GetMut(a, index) = None THEN [panic |-> TRUE, value |-> None]
    ELSE [panic |-> FALSE, value |-> GetMut(a, index)]

\* A variant of the head of insert that forgets `self.head = next`.
InsertAtHeadKeepsHead(a, object) ==
    LET index == a.head IN
    IF index >= Len(a.slots) \/ a.slots[index + 1].tag = "Occupied"
    THEN [slots |-> a.slots, len |-> a.len + 1, head |-> a.head,
          idx |-> index, panic |-> TRUE]
    ELSE [slots |-> [a.slots EXCEPT ![index + 1] = Occupied(object)],
          len |-> a.len + 1, head |-> a.head,
          idx |-> index, panic |-> FALSE]

\* The head of insert when the vacant list is non-empty: `self.slots[index]`
\* panics out of bounds, and an occupied head reaches unreachable!().
InsertAtHead(a, object) ==
    LET index == a.head IN
    IF index >= Len(a.slots) \/ a.slots[index + 1].tag = "Occupied"
    THEN [slots |-> a.slots, len |-> a.len + 1, head |-> a.head,
          idx |-> index, panic |-> TRUE]
    ELSE [slots |-> [a.slots EXCEPT ![index + 1] = Occupied(object)],
          len |-> a.len + 1, head |-> a.slots[index + 1].x,
          idx |-> index, panic |-> FALSE]

\* A variant of insert that never looks at the vacant list and always pushes.
InsertOpAlwaysPush(a, object) ==
    [slots |-> Append(a.slots, Occupied(object)), len |-> a.len + 1,
     head |-> a.head, idx |-> Len(a.slots), panic |-> FALSE]

\* Arena::insert
InsertOp(a, object) ==
    IF a.head = UsizeMax
    THEN [slots |-> Append(a.slots, Occupied(object)), len |-> a.len + 1,
          head |-> a.head, idx |-> (a.len + 1) - 1, panic |-> FALSE]
    ELSE InsertAtHead(a, object)

\* A variant of remove that forgets `self.len -= 1`.
RemoveOpKeepsLen(a, index) ==
    IF index >= Len(a.slots) \/ a.slots[index + 1].tag = "Vacant"
    THEN [slots |-> a.slots, len |-> a.len, head |-> a.head, opt |-> None]
    ELSE [slots |-> [a.slots EXCEPT ![index + 1] = Vacant(a.head)],
          len |-> a.len, head |-> index,
          opt |-> Some(a.slots[index + 1].x)]

\* A variant of remove that links the vacated slot behind the head of the
\* vacant list instead of in front of it.
RemoveOpBehindHead(a, index) ==
    IF index >= Len(a.slots) \/ a.slots[index + 1].tag = "Vacant"
    THEN [slots |-> a.slots, len |-> a.len, head |-> a.head, opt |-> None]
    ELSE IF a.head >= Len(a.slots)
    THEN [slots |-> [a.slots EXCEPT ![index + 1] = Vacant(a.head)],
          len |-> a.len - 1, head |-> index,
          opt |-> Some(a.slots[index + 1].x)]
    ELSE [slots |-> [a.slots EXCEPT
                        ![index + 1] = Vacant(a.slots[a.head + 1].x),
                        ![a.head + 1] = Vacant(index)],
          len |-> a.len - 1, head |-> a.head,
          opt |-> Some(a.slots[index + 1].x)]

\* A variant of remove that fills the hole with the last slot, as
\* Vec::swap_remove does.
RemoveOpSwapRemove(a, index) ==
    IF index >= Len(a.slots) \/ a.slots[index + 1].tag = "Vacant"
    THEN [slots |-> a.slots, len |-> a.len, head |-> a.head, opt |-> None]
    ELSE [slots |-> SubSeq([a.slots EXCEPT ![index + 1] = a.slots[Len(a.slots)]],
                           1, Len(a.slots) - 1),
          len |-> a.len - 1, head |-> a.head,
          opt |-> Some(a.slots[index + 1].x)]

\* A variant of remove that replaces the slot before it looks at what the
\* slot held, so that a vacant slot is linked into the list a second time.
RemoveOpReplacesFirst(a, index) ==
    IF index >= Len(a.slots)
    THEN [slots |-> a.slots, len |-> a.len, head |-> a.head, opt |-> None]
    ELSE IF a.slots[index + 1].tag = "Vacant"
    THEN [slots |-> [a.slots EXCEPT ![index + 1] = Vacant(a.head)],
          len |-> a.len, head |-> index, opt |-> None]
    ELSE [slots |-> [a.slots EXCEPT ![index + 1] = Vacant(a.head)],
          len |-> a.len - 1, head |-> index,
          opt |-> Some(a.slots[index + 1].x)]

\* A variant of remove without the arm for a vacant slot: it takes what the
\* slot holds, occupied or not, and links the slot into the list.
RemoveOpOfAnySlot(a, index) ==
    IF index >= Len(a.slots)
    THEN [slots |-> a.slots, len |-> a.len, head |-> a.head, opt |-> None]
    ELSE [slots |-> [a.slots EXCEPT ![index + 1] = Vacant(a.head)],
          len |-> a.len - 1, head |-> index,
          opt |-> Some(a.slots[index + 1].x)]

\* Arena::remove
RemoveOp(a, index) ==
    IF index >= Len(a.slots) \/ a.slots[index + 1].tag = "Vacant"
    THEN [slots |-> a.slots, len |-> a.len, head |-> a.head, opt |-> None]
    ELSE [slots |-> [a.slots EXCEPT ![index + 1] = Vacant(a.head)],
          len |-> a.len - 1, head |-> index,
          opt |-> Some(a.slots[index + 1].x)]

\* A variant of clear that forgets `self.len = 0`.
ClearOpKeepsLen(a) == [slots |-> << >>, len |-> a.len, head |-> UsizeMax]

\* A variant of clear that forgets `self.head = !0`.
ClearOpKeepsHead(a) == [slots |-> << >>, len |-> 0, head |-> a.head]

\* Arena::clear
ClearOp(a) == [slots |-> << >>, len |-> 0, head |-> UsizeMax]

\* A variant of swap that stores the object of slot x in slot y and leaves
\* slot x as it is.
SwapOpCopies(a, x, y) ==
    IF GetMut(a, x) = None \/ GetMut(a, y) = None
    THEN [slots |-> a.slots, len |-> a.len, head |-> a.head, panic |-> TRUE]
    ELSE [slots |-> [a.slots EXCEPT ![y + 1] = a.slots[x + 1]],
          len |-> a.len, head |-> a.head, panic |-> FALSE]

\* Arena::swap: the two unwraps, then ptr::swap of the two objects.
SwapOp(a, x, y) ==
    IF GetMut(a, x) = None \/ GetMut(a, y) = None
    THEN [slots |-> a.slots, len |-> a.len, head |-> a.head, panic |-> TRUE]
    ELSE IF x # y
    THEN [slots |-> [a.slots EXCEPT ![x + 1] = Occupied(GetMut(a, y)[1]),
                                    ![y + 1] = Occupied(GetMut(a, x)[1])],
          len |-> a.len, head |-> a.head, panic |-> FALSE]
    ELSE [slots |-> a.slots, len |-> a.len, head |-> a.head, panic |-> FALSE]

\* `for i in iter { arena.insert(i); }` on arena a
RECURSIVE InsertAll(_, _)
InsertAll(a, items) ==
    IF items = << >> THEN a
    ELSE LET r == InsertOp(a, Head(items))
         IN  InsertAll([slots |-> r.slots, len |-> r.len, head |-> r.head],
                       Tail(items))

\* A variant of from_iter that takes the items from the last to the first.
FromIterOpBackwards(items) ==
    InsertAll(ArenaNew, [k \in 1 .. Len(items) |-> items[Len(items) + 1 - k]])

\* FromIterator for Arena: the arena collected from `items`.
FromIterOp(items) == InsertAll(ArenaNew, items)

\* A variant of clone that stores the occupied values of `a` in a new arena
\* one after the other.
CloneOpCompacting(a) ==
    LET objects == SelectSeq(a.slots, LAMBDA s : s.tag = "Occupied")
    IN  [slots |-> objects, len |-> Len(objects), head |-> UsizeMax]

\* Clone for Arena: Vec::clone copies the slots, each slot into a slot of
\* the new Vec at the same index.
CloneOp(a) ==
    [slots |-> [i \in 1 .. Len(a.slots) |-> a.slots[i]], len |-> a.len,
     head |-> a.head]

(***************************************************************************)
(* The iterators.  Each of Iter, IterMut and IntoIter enumerates the Vec   *)
(* and skips the vacant slots; `pos` is the position of the enumeration.   *)
(***************************************************************************)
\* A variant of the iterators that ends at the first vacant slot.
RECURSIVE SlotsFromUntilVacant(_, _)
SlotsFromUntilVacant(s, pos) ==
    IF pos >= Len(s) THEN << >>
    ELSE IF s[pos + 1].tag = "Occupied"
         THEN << << pos, s[pos + 1].x >> >> \o SlotsFromUntilVacant(s, pos + 1)
         ELSE << >>

RECURSIVE SlotsFrom(_, _)
SlotsFrom(s, pos) ==
    IF pos >= Len(s) THEN << >>
    ELSE IF s[pos + 1].tag = "Occupied"
         THEN << << pos, s[pos + 1].x >> >> \o SlotsFrom(s, pos + 1)
         ELSE SlotsFrom(s, pos + 1)

\* Everything Arena::iter yields (Iter::next until None).
IterItems(a) == SlotsFrom(a.slots, 0)

\* Everything Arena::iter_mut yields (IterMut::next until None).
IterMutItems(a) == SlotsFrom(a.slots, 0)

\* Everything Arena::into_iter yields (IntoIter::next until None).
IntoIterItems(a) == SlotsFrom(a.slots, 0)

(***************************************************************************)
(* Bitmap, src/src/bitmap.rs.  A bitmap value is b = [data, len, occupied, *)
(* head].  `data` is the one contiguous array of the source: the bit masks *)
(* of the blocks, then their successors, then their predecessors; the word *)
(* at offset o is data[o + 1], and Len(data) is the size of the allocation.*)
(* The accessors mask, successor and predecessor compute an offset from   *)
(* the bitmap's current len, as the source does, whatever the size of the  *)
(* allocation is.                                                          *)
(***************************************************************************)
\* bits(): the number of slots one block covers.
Bits == Pow2(BlockShift)

\* `!0` as a bit mask: every slot of the block is occupied.
FullMask == Pow2(Bits) - 1

\* The bits of a word that are the slots of a block.
MaskOf(word) == word % (FullMask + 1)

\* A word of an allocation that was never written (Vec::with_capacity).
Uninit == -1

\* blocks_for
BlocksFor(n) == n \div Bits + (IF n % Bits > 0 THEN 1 ELSE 0)

\* slot_index, before any wrap-around
SlotIndex(block, offset) == block * Bits + offset

\* block_and_offset
BlockOf(index) == index \div Bits

OffsetOf(index) == index % Bits

\* `mask >> off & 1`
BitAt(mask, off) == (mask \div Pow2(off)) % 2

\* `mask ^ (1 << off)`
FlipBit(mask, off) ==
    IF BitAt(mask, off) = 0 THEN mask + Pow2(off) ELSE mask - Pow2(off)

\* `!mask`, on the slots of a block
Not(mask) == FullMask - MaskOf(mask)

\* usize::trailing_zeros
RECURSIVE TrailingZeros(_)
TrailingZeros(x) ==
    IF x = 0 THEN Bits
    ELSE IF x % 2 = 1 THEN 0 ELSE 1 + TrailingZeros(x \div 2)

\* Wrapping arithmetic of a release build.
Wrap(n) == n % (UsizeMax + 1)

\* A read at offset `off` finds no initialized word of the allocation.
Faulty(data, off) ==
    IF off >= Len(data) THEN TRUE ELSE data[off + 1] = Uninit

\* The values such a read can produce: any word when it is faulty.
Garbage(data, off) == IF Faulty(data, off) THEN Usize ELSE {0}

\* The same for a read of a mask, of which only the slots' bits are used.
GarbageMask(data, off) == IF Faulty(data, off) THEN 0 .. FullMask ELSE {0}

\* The word read at offset `off`; g is what a faulty read produces.
Load(data, off, g) == IF Faulty(data, off) THEN g ELSE data[off + 1]

(***************************************************************************)
(* A sequence of stores is threaded through m = [data, ub, panic]: ub is   *)
(* set by a store outside the allocation (which leaves `data` unchanged),  *)
(* panic by an offset computation that overflows in a debug build; in a    *)
(* release build the offset wraps around.  Nothing is stored after a panic.*)
(***************************************************************************)
Mem(data, u) == [data |-> data, ub |-> u, panic |-> FALSE]

Store(m, raw, v, dbg) ==
    IF m.panic THEN m
    ELSE IF raw > UsizeMax /\ dbg THEN [m EXCEPT !.panic = TRUE]
    ELSE IF Wrap(raw) < Len(m.data)
         THEN [m EXCEPT !.data[Wrap(raw) + 1] = v]
         ELSE [m EXCEPT !.ub = TRUE]

\* Bitmap::mask, Bitmap::successor, Bitmap::predecessor: the offset of the
\* entry of `block` for a bitmap of `n` slots.
MaskOff(n, block) == block

SuccessorOff(n, block) == BlocksFor(n) + block

PredecessorOff(n, block) == 2 * BlocksFor(n) + block

\* Bitmap::link_blocks on a bitmap of n slots
LinkBlocks(m, n, a, b, dbg) ==
    LET m1 == IF a # UsizeMax THEN Store(m, SuccessorOff(n, a), b, dbg) ELSE m
    IN  IF b # UsizeMax THEN Store(m1, PredecessorOff(n, b), a, dbg) ELSE m1

\* Before the first call on the bitmap.
NoBitmapCall == [op |-> "new", arg |-> 0, ret |-> UsizeMax, panic |-> "",
                 ub |-> FALSE, junk |-> FALSE]

\* Bitmap::new
BitmapNew == [data |-> << >>, len |-> 0, occupied |-> 0, head |-> UsizeMax]

\* The result of a call: the bitmap after it, the value returned, the panic
\* message ("" when the call returned), whether it stored outside the
\* allocation (ub), and whether it read a word that is outside the
\* allocation or uninitialized (junk).
Returned(b, ret, u, j) == [b |-> b, ret |-> ret, panic |-> "", ub |-> u, junk |-> j]

Panicked(b, msg, u, j) == [b |-> b, ret |-> UsizeMax, panic |-> msg, ub |-> u, junk |-> j]

\* Bitmap::acquire_at.  g[1] is what a faulty read of the mask produces in
\* the assertion, g[2] in the update, g[3] in the comparison with !0, and
\* g[4] what a faulty read of the successor produces.
AcquireAtOp(b, index, g, dbg) ==
    IF index >= b.len THEN Panicked(b, "index out of bounds", FALSE, FALSE)
    ELSE
    LET block  == BlockOf(index)
        offset == OffsetOf(index)
        mo     == MaskOff(b.len, block)
        j1     == Faulty(b.data, mo)
    IN
    IF BitAt(Load(b.data, mo, g[1]), offset) # 0
    THEN Panicked(b, "occupied slot at index", FALSE, j1)
    ELSE
    LET m1     == Store(Mem(b.data, FALSE), mo,
                        FlipBit(Load(b.data, mo, g[2]), offset), dbg)
        after  == Load(m1.data, mo, g[3])
    IN
    IF block = b.head /\ MaskOf(after) = FullMask
    THEN LET so   == SuccessorOff(b.len, block)
             succ == Load(m1.data, so, g[4])
             j2   == j1 \/ Faulty(m1.data, so)
             m2   == LinkBlocks(m1, b.len, UsizeMax, succ, dbg)
         IN  IF m2.panic
             THEN Panicked([b EXCEPT !.data = m2.data],
                           "attempt to add with overflow", m2.ub, j2)
             ELSE IF b.occupied = UsizeMax /\ dbg
             THEN Panicked([b EXCEPT !.data = m2.data, !.head = succ],
                           "attempt to add with overflow", m2.ub, j2)
             ELSE Returned([b EXCEPT !.data = m2.data, !.head = succ,
                                     !.occupied = Wrap(@ + 1)], index, m2.ub, j2)
    ELSE IF b.occupied = UsizeMax /\ dbg
    THEN Panicked([b EXCEPT !.data = m1.data],
                  "attempt to add with overflow", m1.ub, j1)
    ELSE Returned([b EXCEPT !.data = m1.data, !.occupied = Wrap(@ + 1)],
                  index, m1.ub, j1)

\* A variant of the choice of acquire's block that never looks at the list
\* and always takes the last block.
AcquireBlockLast(b) == BlocksFor(b.len) - 1

\* The block Bitmap::acquire takes a slot from.
AcquireBlock(b) == IF b.head = UsizeMax THEN BlocksFor(b.len) - 1 ELSE b.head

\* The offset Bitmap::acquire computes in that block; g0 is what a faulty
\* read of the block's mask produces.
AcquireOffset(b, g0) ==
    TrailingZeros(Not(Load(b.data, MaskOff(b.len, AcquireBlock(b)), g0)))

\* Bitmap::acquire.  g0 is what a faulty read of the chosen block's mask
\* produces, g the faulty reads of acquire_at.
AcquireOp(b, g0, g, dbg) ==
    IF ~(b.occupied < b.len)
    THEN Panicked(b, "no vacant slots to acquire", FALSE, FALSE)
    ELSE
    LET block  == AcquireBlock(b)
        j0     == Faulty(b.data, MaskOff(b.len, block))
        offset == AcquireOffset(b, g0)
        raw    == SlotIndex(block, offset)
    IN
    IF dbg /\ ~(offset < Bits)
    THEN Panicked(b, "assertion failed: offset < bits()", FALSE, j0)
    ELSE IF dbg /\ raw > UsizeMax
    THEN Panicked(b, "attempt to multiply with overflow", FALSE, j0)
    ELSE LET r == AcquireAtOp(b, Wrap(raw), g, dbg)
         IN  [r EXCEPT !.junk = @ \/ j0]

\* A variant of release without the assertion on the slot: it flips the bit
\* of a vacant slot too.
ReleaseOpUnchecked(b, index, g, dbg) ==
    IF index >= b.len THEN Panicked(b, "index out of bounds", FALSE, FALSE)
    ELSE LET mo == MaskOff(b.len, BlockOf(index))
             m  == Store(Mem(b.data, FALSE), mo,
                         FlipBit(Load(b.data, mo, g[3]), OffsetOf(index)), dbg)
         IN  Returned([b EXCEPT !.data = m.data, !.occupied = Wrap(@ + UsizeMax)],
                      UsizeMax, m.ub, Faulty(b.data, mo))

\* A variant of release that forgets `self.head = block`.
ReleaseOpKeepsHead(b, index, g, dbg) ==
    IF index >= b.len THEN Panicked(b, "index out of bounds", FALSE, FALSE)
    ELSE
    LET block  == BlockOf(index)
        offset == OffsetOf(index)
        mo     == MaskOff(b.len, block)
        j1     == Faulty(b.data, mo)
    IN
    IF BitAt(Load(b.data, mo, g[1]), offset) # 1
    THEN Panicked(b, "releasing a vacant slot", FALSE, j1)
    ELSE IF b.occupied = 0 /\ dbg
    THEN Panicked(b, "attempt to subtract with overflow", FALSE, j1)
    ELSE
    LET occ  == Wrap(b.occupied + UsizeMax)
        full == MaskOf(Load(b.data, mo, g[2])) = FullMask
        m1   == IF full
                THEN LinkBlocks(LinkBlocks(Mem(b.data, FALSE), b.len, UsizeMax, block, dbg),
                                b.len, block, b.head, dbg)
                ELSE Mem(b.data, FALSE)
        hd   == b.head
    IN
    IF m1.panic
    THEN Panicked([b EXCEPT !.data = m1.data, !.occupied = occ],
                  "attempt to add with overflow", m1.ub, j1)
    ELSE LET m2 == Store(m1, mo, FlipBit(Load(m1.data, mo, g[3]), offset), dbg)
         IN Returned([b EXCEPT !.data = m2.data, !.occupied = occ, !.head = hd],
                     UsizeMax, m2.ub, j1 \/ Faulty(m1.data, mo))

\* Bitmap::release.  g[1] is what a faulty read of the mask produces in the
\* assertion, g[2] in the comparison with !0, g[3] in the update.
ReleaseOp(b, index, g, dbg) ==
    IF index >= b.len THEN Panicked(b, "index out of bounds", FALSE, FALSE)
    ELSE
    LET block  == BlockOf(index)
        offset == OffsetOf(index)
        mo     == MaskOff(b.len, block)
        j1     == Faulty(b.data, mo)
    IN
    IF BitAt(Load(b.data, mo, g[1]), offset) # 1
    THEN Panicked(b, "releasing a vacant slot", FALSE, j1)
    ELSE IF b.occupied = 0 /\ dbg
    THEN Panicked(b, "attempt to subtract with overflow", FALSE, j1)
    ELSE
    LET occ  == Wrap(b.occupied + UsizeMax)
        full == MaskOf(Load(b.data, mo, g[2])) = FullMask
        m1   == IF full
                THEN LinkBlocks(LinkBlocks(Mem(b.data, FALSE), b.len, UsizeMax, block, dbg),
                                b.len, block, b.head, dbg)
                ELSE Mem(b.data, FALSE)
        hd   == IF full THEN block ELSE b.head
    IN
    IF m1.panic
    THEN Panicked([b EXCEPT !.data = m1.data, !.occupied = occ],
                  "attempt to add with overflow", m1.ub, j1)
    ELSE LET m2 == Store(m1, mo, FlipBit(Load(m1.data, mo, g[3]), offset), dbg)
         IN Returned([b EXCEPT !.data = m2.data, !.occupied = occ, !.head = hd],
                     UsizeMax, m2.ub, j1 \/ Faulty(m1.data, mo))

\* The words of the array reserve_exact allocates for nb blocks: the three
\* subarrays of ob blocks copied from `data`, the new masks zeroed, and the
\* new successors and predecessors left as they were allocated.
NewData(data, ob, nb) ==
    [o \in 1 .. 3 * nb |->
        LET i     == (o - 1) \div nb
            block == (o - 1) % nb
        IN  IF block < ob
            THEN IF ob * i + block < Len(data) THEN data[ob * i + block + 1]
                 ELSE Uninit
            ELSE IF i = 0 THEN 0 ELSE Uninit]

\* `for block in from .. to { self.link_blocks(block, block + 1) }`
RECURSIVE LinkRun(_, _, _, _, _)
LinkRun(m, n, from, to, dbg) ==
    IF from >= to THEN m
    ELSE LinkRun(LinkBlocks(m, n, from, from + 1, dbg), n, from + 1, to, dbg)

\* A variant of the end of reserve_exact that pushes every new block, the
\* last one too.
ReserveExactLinksAllNew(m, n, ob, nb, hd, dbg) ==
    IF ob + 1 <= nb
    THEN [m |-> LinkRun(LinkBlocks(LinkBlocks(m, n, nb - 1, hd, dbg),
                                   n, UsizeMax, ob, dbg),
                        n, ob, nb - 1, dbg),
          head |-> ob]
    ELSE [m |-> m, head |-> hd]

\* The end of reserve_exact: the new blocks but the last are pushed into the
\* list in front of `hd`.  Returns the memory and the head.
ReserveExactLinksNew(m, n, ob, nb, hd, dbg) ==
    IF ob + 2 <= nb
    THEN [m |-> LinkRun(LinkBlocks(LinkBlocks(m, n, nb - 2, hd, dbg),
                                   n, UsizeMax, ob, dbg),
                        n, ob, nb - 2, dbg),
          head |-> ob]
    ELSE [m |-> m, head |-> hd]

\* A variant of the addition that wraps around.
WrappingAdd(x, y) == Wrap(x + y)

\* usize::checked_add; -1 stands for None.
CheckedAdd(x, y) == IF x + y > UsizeMax THEN -1 ELSE x + y

\* Bitmap::reserve_exact.  g is what a faulty read of the last block's mask
\* produces.
ReserveExactOp(b, additional, g, dbg) ==
    IF CheckedAdd(b.len, additional) < 0
    THEN Panicked(b, "len overflow", FALSE, FALSE)
    ELSE
    LET ob        == BlocksFor(b.len)
        n         == CheckedAdd(b.len, additional)
        nb        == BlocksFor(n)
        lastBlock == ob - 1
    IN
    IF nb = ob THEN Returned([b EXCEPT !.len = n], UsizeMax, FALSE, FALSE)
    ELSE
    LET push == IF ob > 0
                THEN MaskOf(Load(b.data, MaskOff(n, lastBlock), g)) # FullMask
                ELSE FALSE
        j1   == IF ob > 0 THEN Faulty(b.data, MaskOff(n, lastBlock)) ELSE FALSE
        \* The len is the new one already, the array still the old one.
        m1   == IF push
                THEN LinkBlocks(LinkBlocks(Mem(b.data, FALSE), n, lastBlock, b.head, dbg),
                                n, UsizeMax, lastBlock, dbg)
                ELSE Mem(b.data, FALSE)
        hd1  == IF push THEN lastBlock ELSE b.head
    IN
    IF m1.panic
    THEN Panicked([b EXCEPT !.len = n, !.data = m1.data],
                  "attempt to add with overflow", m1.ub, j1)
    ELSE
    LET \* Copying 3 * ob words out of a smaller allocation reads outside it.
        u2 == m1.ub \/ Len(m1.data) # 3 * ob
        r  == ReserveExactLinksNew(Mem(NewData(m1.data, ob, nb), u2),
                                   n, ob, nb, hd1, dbg)
    IN
    IF r.m.panic
    THEN Panicked([b EXCEPT !.len = n, !.data = r.m.data, !.head = hd1],
                  "attempt to add with overflow", r.m.ub, j1)
    ELSE Returned([b EXCEPT !.len = n, !.data = r.m.data, !.head = r.head],
                  UsizeMax, r.m.ub, j1)

\* A variant of amortized_reserve that never doubles.
AmortizedReserveNoDoubling(b, additional) ==
    IF b.len + additional > UsizeMax \/ b.len * 2 > UsizeMax THEN -1
    ELSE additional

\* Bitmap::amortized_reserve; -1 stands for the panic "len overflow".
AmortizedReserve(b, additional) ==
    IF b.len + additional > UsizeMax \/ b.len * 2 > UsizeMax THEN -1
    ELSE (IF b.len + additional >= b.len * 2 THEN b.len + additional
                                             ELSE b.len * 2) - b.len

\* Bitmap::reserve
ReserveOp(b, additional, g, dbg) ==
    IF AmortizedReserve(b, additional) < 0
    THEN Panicked(b, "len overflow", FALSE, FALSE)
    ELSE ReserveExactOp(b, AmortizedReserve(b, additional), g, dbg)

\* Bitmap::is_occupied, for an index below len (the call panics otherwise);
\* g is what a faulty read of the mask produces.
IsOccupied(b, index, g) ==
    BitAt(Load(b.data, MaskOff(b.len, BlockOf(index)), g), OffsetOf(index)) # 0

\* The least element of a non-empty set of numbers.
Least(S) == CHOOSE x \in S : \A y \in S : x <= y

\* The greatest element of a non-empty set of numbers.
Greatest(S) == CHOOSE x \in S : \A y \in S : x >= y

\* A variant of next_occupied that scans each block from its first slot.
RECURSIVE NextOccupiedWholeBlock(_, _)
NextOccupiedWholeBlock(b, index) ==
    IF ~(index < b.len) THEN None
    ELSE
    LET block == BlockOf(index)
        mask  == Load(b.data, MaskOff(b.len, block), 0)
        offs  == {off \in 0 .. Bits - 1 : BitAt(mask, off) = 1}
    IN  IF mask # 0 /\ offs # {}
        THEN Some(SlotIndex(block, Least(offs)))
        ELSE NextOccupiedWholeBlock(b, SlotIndex(block + 1, 0))

\* Bitmap::next_occupied: the `while` loop over the blocks, the `for` loop
\* over the offsets from that of index on.
RECURSIVE NextOccupied(_, _)
NextOccupied(b, index) ==
    IF ~(index < b.len) THEN None
    ELSE
    LET block  == BlockOf(index)
        offset == OffsetOf(index)
        mask   == Load(b.data, MaskOff(b.len, block), 0)
        offs   == {off \in offset .. Bits - 1 : BitAt(mask, off) = 1}
    IN  IF mask # 0 /\ offs # {}
        THEN Some(SlotIndex(block, Least(offs)))
        ELSE NextOccupied(b, SlotIndex(block + 1, 0))

\* Everything the bitmap's Iter yields from position index on: Iter::next
\* until it returns None.
RECURSIVE IterFrom(_, _)
IterFrom(b, index) ==
    IF NextOccupied(b, index) = None THEN << >>
    ELSE << NextOccupied(b, index)[1] >>
            \o IterFrom(b, NextOccupied(b, index)[1] + 1)

\* Bitmap::iter().collect()
BitmapIterItems(b) == IterFrom(b, 0)

\* The positions the bitmap's Iter is at in the course of a traversal: 0 when
\* iter() made it, and index + 1 after next has yielded index.
IterPositions(b) ==
    {0} \cup {BitmapIterItems(b)[k] + 1 : k \in 1 .. Len(BitmapIterItems(b))}

\* Iter::size_hint at position index: (low, Some(high)).
IterSizeHint(b, index) == [low |-> 0, high |-> b.len - index]

\* Iter::count at position index.
IterCount(b, index) == b.occupied

\* The `loop` of previous_occupied from index on: the result, and whether a
\* mask was read that is no word of the allocation or was never written
\* (junk) or is no mask of the bitmap (stray).
RECURSIVE PreviousOccupiedLoop(_, _, _, _)
PreviousOccupiedLoop(b, index, j, st) ==
    LET block  == BlockOf(index)
        offset == OffsetOf(index)
        mo     == MaskOff(b.len, block)
        mask   == Load(b.data, mo, 0)
        offs   == {off \in 0 .. offset - 1 : BitAt(mask, off) = 1}
        j1     == j \/ Faulty(b.data, mo)
        st1    == st \/ ~(block < BlocksFor(b.len))
    IN  IF mask # 0 /\ offs # {}
        THEN [ret |-> Some(SlotIndex(block, Greatest(offs))), junk |-> j1, stray |-> st1]
        ELSE IF block = 0 THEN [ret |-> None, junk |-> j1, stray |-> st1]
        ELSE PreviousOccupiedLoop(b, SlotIndex(block - 1, 0), j1, st1)

\* Bitmap::previous_occupied
PreviousOccupied(b, index) ==
    PreviousOccupiedLoop(b, IF index <= b.len THEN index ELSE b.len, FALSE, FALSE)

(***************************************************************************)
(* The state machine of one arena.                                         *)
(***************************************************************************)
Arena == [slots |-> slots, len |-> len, head |-> head]

NoCall == [op |-> "new", arg |-> 0, idx |-> UsizeMax, opt |-> None,
           panic |-> FALSE, lenBefore |-> 0, capBefore |-> 0]

\* No clone has been taken.
NoClone == [made |-> FALSE, slots |-> << >>, len |-> 0, head |-> UsizeMax]

\* The clone as an arena.
Copy == [slots |-> copy.slots, len |-> copy.len, head |-> copy.head]

\* The room for n more inserts that the call `op` promised.
Room(op, n) == [by |-> op, n |-> n, left |-> n]

\* The arena after Arena::new()
ArenaInit ==
    /\ slots = ArenaNew.slots
    /\ len = ArenaNew.len
    /\ head = ArenaNew.head
    /\ cap = 0
    /\ covered = Room("new", 0)
    /\ last = NoCall
    /\ prev = NoCall
    /\ map = << >>
    /\ vacated = << >>
    /\ nIns = 0
    /\ nRem = 0
    /\ cleared = FALSE
    /\ copy = NoClone

\* The arena after Arena::with_capacity(capacity): Vec::with_capacity gives
\* the Vec of slots exactly that capacity.
WithCapacity(capacity) ==
    /\ slots = ArenaNew.slots
    /\ len = ArenaNew.len
    /\ head = ArenaNew.head
    /\ cap = capacity
    /\ covered = Room("with_capacity", capacity)
    /\ last = [NoCall EXCEPT !.op = "with_capacity", !.arg = capacity]
    /\ prev = NoCall
    /\ map = << >>
    /\ vacated = << >>
    /\ nIns = 0
    /\ nRem = 0
    /\ cleared = FALSE
    /\ copy = NoClone

\* Arena::capacity
Capacity == cap

\* The arena collected from the iterator that yields `items` and whose
\* size_hint has the lower bound `hint`: with_capacity(hint), then the
\* inserts, which reallocate the Vec once it holds more than `hint` slots.
FromIter(items, hint) ==
    /\ slots = FromIterOp(items).slots
    /\ len = FromIterOp(items).len
    /\ head = FromIterOp(items).head
    /\ cap \in (IF Len(items) <= hint THEN {hint}
                ELSE {Len(items)} \cup {k \in 0 .. MaxCap : k >= Len(items)})
    /\ covered = [by |-> "from_iter", n |-> hint, left |-> 0]
    /\ last = [NoCall EXCEPT !.op = "from_iter", !.arg = Len(items)]
    /\ prev = NoCall
    /\ map = [i \in 0 .. Len(items) - 1 |-> items[i + 1]]
    /\ vacated = << >>
    /\ nIns = Len(items)
    /\ nRem = 0
    /\ cleared = FALSE
    /\ copy = NoClone

\* The items an iterator yields.
Items == UNION {[1 .. n -> Values] : n \in 0 .. MaxSlots}

\* A variant of the push that reallocates the Vec whether or not it is full.
PushCapacitiesEager(n, m, c) == {k \in 0 .. MaxCap : k >= m}

\* The capacities of a Vec of capacity c after a call that took its length
\* from n to m: Vec::push reallocates only a full Vec, to any larger
\* capacity.
PushCapacities(n, m, c) == IF m <= c THEN {c} ELSE {k \in 0 .. MaxCap : k >= m}

\* A variant of the reservation that makes room for one element less.
ReserveCapacitiesOneShort(n, k, c) ==
    IF c - n >= k THEN {c} ELSE {j \in 0 .. MaxCap : j >= n + k - 1 /\ j >= c}

\* The capacities of a Vec of length n and capacity c after Vec::reserve or
\* Vec::reserve_exact of k more elements: unchanged when they fit, else any
\* capacity that holds them (the allocator may give more than asked).
ReserveCapacities(n, k, c) ==
    IF c - n >= k THEN {c} ELSE {j \in 0 .. MaxCap : j >= n + k}

\* Vec::reserve and Vec::reserve_exact panic with "capacity overflow" when
\* the new capacity exceeds isize::MAX bytes.
CapacityOverflow(n, k) == n + k > UsizeMax \div 2

\* The reference map with index i bound to value v.
MapPut(m, i, v) == [j \in DOMAIN m \cup {i} |-> IF j = i THEN v ELSE m[j]]

\* The reference map without index i.
MapDel(m, i) == [j \in DOMAIN m \ {i} |-> m[j]]

\* The list of vacated indices without index i.
RECURSIVE Without(_, _)
Without(s, i) ==
    IF s = << >> THEN << >>
    ELSE IF Head(s) = i THEN Without(Tail(s), i)
    ELSE << Head(s) >> \o Without(Tail(s), i)

\* A bound of n slots admits the next insert into a: it reuses a vacant
\* slot, or there are fewer than n slots.
Fits(a, n) == a.head = UsizeMax => Len(a.slots) < n

Insert(object) ==
    /\ last.panic = FALSE
    /\ Fits(Arena, MaxSlots)
    /\ nIns < MaxInserts
    /\ LET r == InsertOp(Arena, object) IN
        /\ cap' \in PushCapacities(Len(slots), Len(r.slots), cap)
        /\ covered' = [covered EXCEPT !.left = IF @ > 0 THEN @ - 1 ELSE 0]
        /\ slots' = r.slots
        /\ len' = r.len
        /\ head' = r.head
        /\ last' = [op |-> "insert", arg |-> object, idx |-> r.idx,
                    opt |-> None, panic |-> r.panic, lenBefore |-> len,
                    capBefore |-> cap]
        /\ prev' = last
        /\ map' = IF r.panic THEN map ELSE MapPut(map, r.idx, object)
        /\ vacated' = IF r.panic THEN vacated ELSE Without(vacated, r.idx)
        /\ nIns' = nIns + 1
        /\ nRem' = nRem
        /\ cleared' = cleared
        /\ copy' = copy
    /\ UNCHANGED bitmapVars

Remove(index) ==
    /\ last.panic = FALSE
    /\ LET r == RemoveOp(Arena, index) IN
        /\ cap' = cap
        /\ covered' = covered
        /\ slots' = r.slots
        /\ len' = r.len
        /\ head' = r.head
        /\ last' = [op |-> "remove", arg |-> index, idx |-> UsizeMax,
                    opt |-> r.opt, panic |-> FALSE, lenBefore |-> len,
                    capBefore |-> cap]
        /\ prev' = last
        /\ map' = IF r.opt = None THEN map ELSE MapDel(map, index)
        /\ vacated' = IF r.opt = None THEN vacated ELSE << index >> \o vacated
        /\ nIns' = nIns
        /\ nRem' = IF r.opt = None THEN nRem ELSE nRem + 1
        /\ cleared' = cleared
        /\ copy' = copy
    /\ UNCHANGED bitmapVars

Clear ==
    /\ last.panic = FALSE
    /\ LET r == ClearOp(Arena) IN
        /\ cap' = cap
        /\ covered' = covered
        /\ slots' = r.slots
        /\ len' = r.len
        /\ head' = r.head
        /\ last' = [op |-> "clear", arg |-> 0, idx |-> UsizeMax,
                    opt |-> None, panic |-> FALSE, lenBefore |-> len,
                    capBefore |-> cap]
        /\ prev' = last
        /\ map' = << >>
        /\ vacated' = << >>
        /\ nIns' = 0
        /\ nRem' = 0
        /\ cleared' = TRUE
        /\ copy' = copy
    /\ UNCHANGED bitmapVars

\* Arena::next_vacant, which takes `&mut self` and assigns nothing.
NextVacantCall ==
    /\ last.panic = FALSE
    /\ last' = [op |-> "next_vacant", arg |-> 0, idx |-> NextVacant(Arena),
                opt |-> None, panic |-> FALSE, lenBefore |-> len,
                capBefore |-> cap]
    /\ prev' = last
    /\ UNCHANGED << slots, len, head, cap, covered, map, vacated, nIns, nRem, cleared, copy >>
    /\ UNCHANGED bitmapVars

\* The clone with the fields of arena a.
Cloned(a) == [made |-> TRUE, slots |-> a.slots, len |-> a.len, head |-> a.head]

\* Arena::swap(a, b); the reference map exchanges what it holds at a and b.
Swap(a, b) ==
    /\ last.panic = FALSE
    /\ LET r == SwapOp(Arena, a, b) IN
        /\ slots' = r.slots
        /\ len' = r.len
        /\ head' = r.head
        /\ last' = [op |-> "swap", arg |-> a, idx |-> b, opt |-> None,
                    panic |-> r.panic, lenBefore |-> len, capBefore |-> cap]
        /\ prev' = last
        /\ map' = IF a \in DOMAIN map /\ b \in DOMAIN map
                  THEN [i \in DOMAIN map |-> IF i = a THEN map[b]
                                             ELSE IF i = b THEN map[a]
                                             ELSE map[i]]
                  ELSE map
    /\ UNCHANGED << cap, covered, vacated, nIns, nRem, cleared, copy >>
    /\ UNCHANGED bitmapVars

\* Arena::clone; the clone taken before, if any, is dropped.
Clone ==
    /\ last.panic = FALSE
    /\ copy' = Cloned(CloneOp(Arena))
    /\ last' = [op |-> "clone", arg |-> 0, idx |-> UsizeMax, opt |-> None,
                panic |-> FALSE, lenBefore |-> len, capBefore |-> cap]
    /\ prev' = last
    /\ UNCHANGED << slots, len, head, cap, covered, map, vacated, nIns, nRem, cleared >>
    /\ UNCHANGED bitmapVars

\* Arena::insert on the clone
CloneInsert(object) ==
    /\ last.panic = FALSE
    /\ copy.made
    /\ Len(copy.slots) < MaxSlots
    /\ LET r == InsertOp(Copy, object) IN
        /\ ~r.panic
        /\ copy' = Cloned(r)
        /\ UNCHANGED << slots, len, head, cap, covered, last, prev, map, vacated,
                        nIns, nRem, cleared >>
        /\ UNCHANGED bitmapVars

\* Arena::remove on the clone
CloneRemove(index) ==
    /\ last.panic = FALSE
    /\ copy.made
    /\ copy' = Cloned(RemoveOp(Copy, index))
    /\ UNCHANGED << slots, len, head, cap, covered, last, prev, map, vacated,
                    nIns, nRem, cleared >>
    /\ UNCHANGED bitmapVars

\* Arena::clear on the clone
CloneClear ==
    /\ last.panic = FALSE
    /\ copy.made
    /\ copy' = Cloned(ClearOp(Copy))
    /\ UNCHANGED << slots, len, head, cap, covered, last, prev, map, vacated,
                    nIns, nRem, cleared >>
    /\ UNCHANGED bitmapVars

\* Arena::reserve and Arena::reserve_exact, which differ in the Vec method
\* they call; `op` is the method's name.
ArenaReserveCall(op, additional) ==
    /\ last.panic = FALSE
    /\ LET vacant == Len(slots) - len
           more   == additional - vacant
       IN
        /\ IF additional > vacant /\ ~CapacityOverflow(Len(slots), more)
           THEN cap' \in ReserveCapacities(Len(slots), more, cap)
           ELSE cap' = cap
        /\ last' = [op |-> op, arg |-> additional, idx |-> UsizeMax,
                    opt |-> None,
                    panic |-> (additional > vacant
                               /\ CapacityOverflow(Len(slots), more)),
                    lenBefore |-> len, capBefore |-> cap]
        /\ covered' = IF additional > vacant /\ CapacityOverflow(Len(slots), more)
                      THEN covered ELSE Room(op, additional)
    /\ prev' = last
    /\ UNCHANGED << slots, len, head, map, vacated, nIns, nRem, cleared, copy >>
    /\ UNCHANGED bitmapVars

ArenaReserve(additional) == ArenaReserveCall("reserve", additional)

ArenaReserveExact(additional) == ArenaReserveCall("reserve_exact", additional)

\* The indices asked of remove: every slot the bound on the slots admits, the
\* first index beyond them, and the sentinel.
Indices == (0 .. MaxSlots) \cup {UsizeMax}

\* The numbers of slots asked of reserve and reserve_exact: those the bound
\* on the capacity admits, and the largest usize.
Reservations == (0 .. MaxCap) \cup {UsizeMax}

Next ==
    \/ \E object \in Values : Insert(object)
    \/ \E index \in Indices : Remove(index)
    \/ Clear

\* The arena with its capacity reserved ahead as well.  The capacity of the
\* Vec does not depend on the objects stored, so one object is inserted.
CapacityNext ==
    \/ \E object \in {CHOOSE v \in Values : TRUE} : Insert(object)
    \/ \E index \in Indices : Remove(index)
    \/ Clear
    \/ \E additional \in Reservations : ArenaReserve(additional)
    \/ \E additional \in Reservations : ArenaReserveExact(additional)

\* While the arena runs, the bitmap stays as constructed.
BitmapIdle ==
    /\ bitmap = BitmapNew
    /\ debug_assertions = FALSE
    /\ blast = NoBitmapCall
    /\ held = {}
    /\ lastFreed = UsizeMax

Init == ArenaInit /\ BitmapIdle

\* The arena after Arena::new() or Arena::with_capacity(capacity)
CapacityInit ==
    /\ ArenaInit \/ \E capacity \in 0 .. MaxCap : WithCapacity(capacity)
    /\ BitmapIdle

CapacitySpec == CapacityInit /\ [][CapacityNext]_vars

\* The arena after Arena::new() or after collecting an iterator
CollectInit ==
    /\ \/ ArenaInit
       \/ \E items \in Items : \E hint \in 0 .. Len(items) : FromIter(items, hint)
    /\ BitmapIdle

CollectSpec == CollectInit /\ [][Next]_vars

Spec == Init /\ [][Next]_vars

\* The arena with next_vacant called between the other operations.
VacantNext ==
    \/ Next
    \/ NextVacantCall

VacantSpec == Init /\ [][VacantNext]_vars

\* The arena with swap called on it.  Inserts and removes of objects bring
\* it into the states swap is called in; clear and removes of nothing lead to
\* no slots, len and head that these do not reach, and are left out.
SwapNext ==
    \/ \E object \in Values : Insert(object)
    \/ \E index \in Indices : Get(Arena, index) # None /\ Remove(index)
    \/ \E a, b \in Indices : Swap(a, b)

SwapSpec == Init /\ [][SwapNext]_vars

\* The arena and a clone of it, each called on its own.  Clone copies the
\* slots whatever objects they hold, so one object is inserted, and each of
\* the two arenas has fewer than MaxSlots slots, which keeps the pairs of
\* arenas few.
CloneNext ==
    \/ \E object \in {CHOOSE v \in Values : TRUE} :
            Fits(Arena, MaxSlots - 1) /\ Insert(object)
    \/ \E index \in Indices : Remove(index)
    \/ Clear
    \/ Clone
    \/ \E object \in {CHOOSE v \in Values : TRUE} :
            Fits(Copy, MaxSlots - 1) /\ CloneInsert(object)
    \/ \E index \in Indices : CloneRemove(index)
    \/ CloneClear

CloneSpec == Init /\ [][CloneNext]_vars

(***************************************************************************)
(* The state machine of one bitmap.  A call that panics leaves the bitmap  *)
(* as it was when the panic started, and the bitmap is not used after it.  *)
(* A store outside the allocation changes no word of the bitmap and is      *)
(* recorded in the call's `ub`.  A read of a word outside the allocation   *)
(* or of a word never written produces any word and is recorded in the     *)
(* call's `junk`; the model follows the bitmap up to the call that makes   *)
(* such a read, with every outcome of that call, and not beyond it.        *)
(***************************************************************************)
BitmapInit ==
    /\ ArenaInit
    /\ bitmap = BitmapNew
    /\ debug_assertions \in BOOLEAN
    /\ blast = NoBitmapCall
    /\ held = {}
    /\ lastFreed = UsizeMax

\* The bitmap is in use: no call has panicked or read a faulty word.
Usable == ~blast.junk /\ blast.panic = ""

\* The bitmap variables after a call `op(arg)` with result r.
Called(op, arg, r) ==
    /\ bitmap' = r.b
    /\ blast' = [op |-> op, arg |-> arg, ret |-> r.ret, panic |-> r.panic,
                 ub |-> r.ub, junk |-> r.junk]
    /\ debug_assertions' = debug_assertions
    /\ UNCHANGED arenaVars

\* The last call released a slot out of a block that was fully occupied:
\* it returned, and every other slot of the block is marked occupied.
FreedFromFull ==
    /\ blast.op = "release"
    /\ blast.panic = ""
    /\ ~Faulty(bitmap.data, MaskOff(bitmap.len, BlockOf(blast.arg)))
    /\ FlipBit(MaskOf(bitmap.data[MaskOff(bitmap.len, BlockOf(blast.arg)) + 1]),
               OffsetOf(blast.arg)) = FullMask

\* The faulty reads of acquire_at(index) on b.
AcquireAtGarbage(b, index) ==
    IF index >= b.len THEN {<< 0, 0, 0, 0 >>}
    ELSE GarbageMask(b.data, MaskOff(b.len, BlockOf(index)))
            \X GarbageMask(b.data, MaskOff(b.len, BlockOf(index)))
            \X (IF MaskOff(b.len, BlockOf(index)) >= Len(b.data)
                THEN 0 .. FullMask ELSE {0})
            \X (IF BlockOf(index) = b.head
                THEN Garbage(b.data, SuccessorOff(b.len, BlockOf(index)))
                ELSE {0})

\* The faulty reads of release(index) on b.
ReleaseGarbage(b, index) ==
    IF index >= b.len THEN {<< 0, 0, 0 >>}
    ELSE GarbageMask(b.data, MaskOff(b.len, BlockOf(index)))
            \X GarbageMask(b.data, MaskOff(b.len, BlockOf(index)))
            \X GarbageMask(b.data, MaskOff(b.len, BlockOf(index)))

Acquire ==
    /\ Usable
    /\ \E g0 \in (IF bitmap.occupied < bitmap.len
                  THEN GarbageMask(bitmap.data,
                                   MaskOff(bitmap.len, AcquireBlock(bitmap)))
                  ELSE {0}) :
       \E g \in (IF bitmap.occupied < bitmap.len
                 THEN AcquireAtGarbage(bitmap,
                          Wrap(SlotIndex(AcquireBlock(bitmap),
                                         AcquireOffset(bitmap, g0))))
                 ELSE {<< 0, 0, 0, 0 >>}) :
       \E r \in {AcquireOp(bitmap, g0, g, debug_assertions)} :
           /\ Called("acquire", 0, r)
           /\ held' = IF r.panic = "" THEN held \cup {r.ret} ELSE held
           /\ lastFreed' = IF FreedFromFull THEN blast.arg ELSE UsizeMax

AcquireAt(index) ==
    /\ Usable
    /\ \E g \in AcquireAtGarbage(bitmap, index) :
       \E r \in {AcquireAtOp(bitmap, index, g, debug_assertions)} :
           /\ Called("acquire_at", index, r)
           /\ held' = IF r.panic = "" THEN held \cup {index} ELSE held
           /\ lastFreed' = UsizeMax

Release(index) ==
    /\ Usable
    /\ \E g \in ReleaseGarbage(bitmap, index) :
       \E r \in {ReleaseOp(bitmap, index, g, debug_assertions)} :
           /\ Called("release", index, r)
           /\ held' = IF r.panic = "" THEN held \ {index} ELSE held
           /\ lastFreed' = UsizeMax

\* The faulty read of reserve_exact(additional) on b.
ReserveExactGarbage(b, additional) ==
    IF BlocksFor(b.len) > 0 /\ b.len + additional <= UsizeMax
    THEN GarbageMask(b.data, MaskOff(b.len + additional, BlocksFor(b.len) - 1))
    ELSE {0}

Reserve(additional) ==
    /\ Usable
    /\ \E g \in ReserveExactGarbage(bitmap, additional) :
       \E r \in {ReserveOp(bitmap, additional, g, debug_assertions)} :
           /\ r.b.len <= MaxLen
           /\ Called("reserve", additional, r)
           /\ held' = held
           /\ lastFreed' = UsizeMax

ReserveExact(additional) ==
    /\ Usable
    /\ \E g \in ReserveExactGarbage(bitmap, additional) :
       \E r \in {ReserveExactOp(bitmap, additional, g, debug_assertions)} :
           /\ r.b.len <= MaxLen
           /\ Called("reserve_exact", additional, r)
           /\ held' = held
           /\ lastFreed' = UsizeMax

\* The numbers of slots asked of reserve and reserve_exact: those the bound
\* on len admits, and the largest usize, which makes the sum overflow.
Additionals == (0 .. MaxLen) \cup {UsizeMax}

BitmapNext ==
    \/ Acquire
    \/ \E index \in 0 .. MaxLen : AcquireAt(index)
    \/ \E index \in 0 .. MaxLen : Release(index)
    \/ \E additional \in Additionals : Reserve(additional)
    \/ \E additional \in Additionals : ReserveExact(additional)

BitmapSpec == BitmapInit /\ [][BitmapNext]_vars

\* The bitmap as the insertion of an arena built on it uses it: an insert
\* calls reserve(1) when occupied == len and then acquire(), a remove calls
\* release of an occupied slot.  The two calls of an insert are two steps
\* with no release in between.
ProtocolReserve ==
    /\ Usable
    /\ bitmap.occupied = bitmap.len
    /\ \E g \in ReserveExactGarbage(bitmap, 1) :
       \E r \in {ReserveOp(bitmap, 1, g, debug_assertions)} :
           /\ r.b.len <= MaxProtocolLen
           /\ Called("reserve", 1, r)
           /\ held' = held
           /\ lastFreed' = UsizeMax

ProtocolNext ==
    \/ ProtocolReserve
    \/ bitmap.occupied < bitmap.len /\ Acquire
    \/ \E index \in 0 .. MaxProtocolLen - 1 :
        /\ blast.op # "reserve"
        /\ index < bitmap.len
        /\ IsOccupied(bitmap, index, 0)
        /\ Release(index)

ProtocolSpec == BitmapInit /\ [][ProtocolNext]_vars

(***************************************************************************)
(* Properties of the bitmap.                                               *)
(***************************************************************************)
\* The blocks of bitmap b.
Blocks(b) == 0 .. BlocksFor(b.len) - 1

\* The word at offset `off` of b's array, 0 where there is none.
Word(b, off) == IF Faulty(b.data, off) THEN 0 ELSE b.data[off + 1]

\* The slot `index` of b is marked occupied in its block's mask.
Marked(b, index) == BitAt(Word(b, MaskOff(b.len, BlockOf(index))), OffsetOf(index)) = 1

\* The slots of b's blocks that are marked occupied.
MarkedSlots(b) == {i \in 0 .. BlocksFor(b.len) * Bits - 1 : Marked(b, i)}

\* Every slot of `block` is marked occupied.
FullBlock(b, block) == MaskOf(Word(b, MaskOff(b.len, block))) = FullMask

\* The blocks met from `block` on by following the successor entries, up to
\* the sentinel, to a word that is no block, or to a block met before.
RECURSIVE Chain(_, _, _)
Chain(b, block, seen) ==
    IF block \notin Blocks(b) \/ block \in seen THEN << >>
    ELSE << block >> \o Chain(b, Word(b, SuccessorOff(b.len, block)),
                              seen \cup {block})

\* What ends that walk: the sentinel when the list is well formed.
RECURSIVE ChainEnd(_, _, _)
ChainEnd(b, block, seen) ==
    IF block \notin Blocks(b) \/ block \in seen THEN block
    ELSE ChainEnd(b, Word(b, SuccessorOff(b.len, block)), seen \cup {block})

\* The list of blocks with vacant slots, from the head.
FreeList(b) == Chain(b, b.head, {})

InFreeList(b, block) == \E k \in 1 .. Len(FreeList(b)) : FreeList(b)[k] = block

\* The bitmap the call changed, before and after the call.
BitmapBefore == bitmap

BitmapAfter == bitmap'

\* C3 (acquire finds a vacant slot): a call of acquire made while
\* occupied < len returns an index below len whose slot was vacant before the
\* call, marks exactly that slot occupied and increases occupied by one; the
\* occupancy of every other slot is unchanged.
C3_AcquireTakesVacantSlot ==
    [][(blast'.op = "acquire" /\ BitmapBefore.occupied < BitmapBefore.len)
        => /\ blast'.panic = ""
           /\ blast'.ret < BitmapBefore.len
           /\ ~Marked(BitmapBefore, blast'.ret)
           /\ BitmapAfter.occupied = BitmapBefore.occupied + 1
           /\ MarkedSlots(BitmapAfter) = MarkedSlots(BitmapBefore) \cup {blast'.ret}
      ]_vars

\* C4 (list of blocks with vacant slots): after every call the list reached
\* from head through the successor entries ends at the sentinel, holds no
\* block twice, holds no fully occupied block and holds every block with a
\* vacant slot, the last block excepted; the predecessor entries mirror the
\* successor entries.
C4_FreeListInvariant ==
    /\ ChainEnd(bitmap, bitmap.head, {}) = UsizeMax
    /\ \A block \in Blocks(bitmap) :
        /\ InFreeList(bitmap, block) => ~FullBlock(bitmap, block)
        /\ (~FullBlock(bitmap, block) /\ block # BlocksFor(bitmap.len) - 1)
            => InFreeList(bitmap, block)
    /\ \A k \in 1 .. Len(FreeList(bitmap)) - 1 :
        Word(bitmap, PredecessorOff(bitmap.len, FreeList(bitmap)[k + 1]))
            = FreeList(bitmap)[k]

\* C5 (occupancy counts): occupied is the number of mask bits set and is at
\* most len, no bit of a slot at or beyond len is set, and is_occupied holds
\* exactly of the slots acquired and not released since.
C5_OccupancyCounts ==
    /\ bitmap.occupied = Cardinality(MarkedSlots(bitmap))
    /\ bitmap.occupied <= bitmap.len
    /\ \A i \in MarkedSlots(bitmap) : i < bitmap.len
    /\ \A i \in 0 .. bitmap.len - 1 : IsOccupied(bitmap, i, 0) <=> i \in held

\* C12 (when acquire panics): a call of acquire panics if every slot is
\* occupied (occupied = len) and in no other state: with occupied < len it
\* returns without tripping an assertion.
C12_AcquirePanicsOnlyWhenFull ==
    [][blast'.op = "acquire"
        => (blast'.panic # "" <=> BitmapBefore.occupied = BitmapBefore.len)
      ]_vars

C14_AcquireAt ==
    [][blast'.op = "acquire_at"
        => IF blast'.arg >= BitmapBefore.len \/ Marked(BitmapBefore, blast'.arg)
           THEN blast'.panic # "" /\ BitmapAfter = BitmapBefore
           ELSE /\ blast'.panic = ""
                /\ MarkedSlots(BitmapAfter) = MarkedSlots(BitmapBefore) \cup {blast'.arg}
                /\ BitmapAfter.occupied = BitmapBefore.occupied + 1
                /\ BitmapAfter.len = BitmapBefore.len
      ]_vars

\* The occupied slots of b in ascending order, from slot i on.
RECURSIVE Ascend(_, _)
Ascend(b, i) ==
    IF i >= b.len THEN << >>
    ELSE (IF Marked(b, i) THEN << i >> ELSE << >>) \o Ascend(b, i + 1)

\* The indices asked of the scans: every slot, and two indices beyond.
ScanIndices == 0 .. MaxLen + 1

C16_PreviousOccupied ==
    \A index \in ScanIndices :
        LET bound  == IF index <= bitmap.len THEN index ELSE bitmap.len
            before == {j \in 0 .. bound - 1 : Marked(bitmap, j)}
        IN  PreviousOccupied(bitmap, index).ret
                = IF before = {} THEN None ELSE Some(Greatest(before))

ArenaAfter == [slots |-> slots', len |-> len', head |-> head']

\* The existing slots that are vacant.
VacantSlots(a) == {i \in 0 .. Len(a.slots) - 1 : a.slots[i + 1].tag = "Vacant"}

\* The existing slots that are occupied.
OccupiedSlots(a) == {i \in 0 .. Len(a.slots) - 1 : a.slots[i + 1].tag = "Occupied"}

\* The reference map's (index, value) pairs in ascending order of index.
RECURSIVE RefItems(_)
RefItems(m) ==
    IF DOMAIN m = {} THEN << >>
    ELSE LET i == CHOOSE j \in DOMAIN m : \A k \in DOMAIN m : j <= k IN
         << << i, m[i] >> >> \o RefItems(MapDel(m, i))

\* A sequence of (index, value) pairs is in strictly ascending index order.
Ascending(items) == \A k \in 1 .. Len(items) - 1 : items[k][1] < items[k + 1][1]

\* C1 (round trip): when remove(i) directly follows the insert(v) that
\* returned i, it returns Some(v), get(i) is None afterwards and len() is
\* back to its value before the insert.
C1_RoundTrip ==
    [][ (/\ last.op = "insert"
         /\ ~last.panic
         /\ last'.op = "remove"
         /\ last'.arg = last.idx)
        => (/\ last'.opt = Some(last.arg)
            /\ Get(ArenaAfter, last.idx) = None
            /\ ArenaLen(ArenaAfter) = last.lenBefore) ]_vars

\* C1 witness: a remove of the index the preceding insert returned, made
\* while other objects are stored, has returned that insert's object.
C1_Witness ==
    /\ prev.op = "insert"
    /\ last.op = "remove"
    /\ last.arg = prev.idx
    /\ last.opt = Some(prev.arg)
    /\ len >= 1

\* C2 (refinement of a sparse map): get(i) is Some(v) exactly when the
\* reference map holds i -> v, and iter(), iter_mut() and into_iter() each
\* yield the map's pairs, once each, in strictly ascending index order.
C2_RefinesMap ==
    /\ \A i \in Usize :
          Get(Arena, i) = IF i \in DOMAIN map THEN Some(map[i]) ELSE None
    /\ IterItems(Arena) = RefItems(map)
    /\ IterMutItems(Arena) = RefItems(map)
    /\ IntoIterItems(Arena) = RefItems(map)
    /\ Ascending(IterItems(Arena))
    /\ Ascending(IterMutItems(Arena))
    /\ Ascending(IntoIterItems(Arena))

\* C2 witness: objects are stored on both sides of a vacant slot.
C2_Witness ==
    /\ Len(slots) = 3
    /\ DOMAIN map = {0, 2}
    /\ Len(IterItems(Arena)) = 2

\* C6 (no growth while a slot is vacant): an insert made while an existing
\* slot is vacant returns a vacant existing slot and adds no slot; it
\* returns the number of slots only when no slot is vacant.
C6_ReuseBeforeGrowth ==
    [][ last'.op = "insert"
        => (/\ VacantSlots(Arena) # {}
               => (/\ last'.idx \in VacantSlots(Arena)
                   /\ Len(slots') = Len(slots))
            /\ last'.idx = Len(slots) => VacantSlots(Arena) = {}) ]_vars

\* C6 witness: an insert has reused a vacant slot while another slot stays
\* vacant.
C6_Witness ==
    /\ last.op = "insert"
    /\ last.idx < Len(slots) - 1
    /\ len = last.lenBefore + 1
    /\ VacantSlots(Arena) # {}

\* C7 (reuse in reverse order of removal): an insert that directly follows
\* a successful remove(i) returns i, and every insert made while vacated
\* indices are pending returns the most recently vacated one.
C7_LifoReuse ==
    [][ last'.op = "insert"
        => (/\ (last.op = "remove" /\ last.opt # None) => last'.idx = last.arg
            /\ vacated # << >> => last'.idx = Head(vacated)) ]_vars

\* C7 witness: two indices were vacated, and the insert after the second
\* remove has reused the second one while the first is still pending.
C7_Witness ==
    /\ prev.op = "remove"
    /\ prev.opt # None
    /\ last.op = "insert"
    /\ last.idx = prev.arg
    /\ vacated # << >>

\* C8 (handle stability): insert returns an index that held no object before
\* the call, and neither insert nor remove(i) changes what get returns for
\* any other index.
C8_HandleStability ==
    [][ /\ last'.op = "insert"
           => (/\ Get(Arena, last'.idx) = None
               /\ \A j \in Usize \ {last'.idx} :
                     Get(ArenaAfter, j) = Get(Arena, j))
        /\ last'.op = "remove"
           => \A j \in Usize \ {last'.arg} :
                 Get(ArenaAfter, j) = Get(Arena, j) ]_vars

\* C8 witness: after an insert and a successful remove of another index, a
\* third object is still stored where its insert put it.
C8_Witness ==
    /\ prev.op = "insert"
    /\ last.op = "remove"
    /\ last.opt # None
    /\ last.arg # prev.idx
    /\ Get(Arena, prev.idx) = Some(prev.arg)
    /\ len >= 2

\* C9 (len counts the objects): len() is the number of occupied slots, which
\* is the number of inserts minus the number of successful removes since the
\* arena was created or last cleared; is_empty() holds exactly when it is 0.
C9_LenCounts ==
    /\ ArenaLen(Arena) = Cardinality(OccupiedSlots(Arena))
    /\ ArenaLen(Arena) = nIns - nRem
    /\ IsEmpty(Arena) <=> (nIns - nRem = 0)

\* C9 witness: after a clear, several inserts and a successful remove.
C9_Witness ==
    /\ last.op = "remove"
    /\ last.opt # None
    /\ nIns >= 3
    /\ nRem >= 2
    /\ len >= 1

\* C10 (remove of nothing): remove(index) with index out of bounds or at a
\* vacant slot returns None and leaves len, head and every slot unchanged.
C10_RemoveNothing ==
    [][ (/\ last'.op = "remove"
         /\ \/ last'.arg >= Len(slots)
            \/ last'.arg \in VacantSlots(Arena))
        => (/\ last'.opt = None
            /\ slots' = slots
            /\ len' = len
            /\ head' = head) ]_vars

\* C10 witness: the second remove of an index has returned None while
\* another slot is vacant too.
C10_Witness ==
    /\ prev.op = "remove"
    /\ prev.opt # None
    /\ last.op = "remove"
    /\ last.arg = prev.arg
    /\ last.opt = None
    /\ Cardinality(VacantSlots(Arena)) >= 2

\* C11 (checked and indexed access): in every state and for every index, get
\* and get_mut return None exactly when the index is out of bounds or its slot
\* is vacant; arena[index], shared or mutable, panics in exactly those cases
\* and otherwise returns the value stored at the index.
C11_CheckedAccess ==
    \A i \in Indices :
        LET absent == i >= Len(slots) \/ i \in VacantSlots(Arena) IN
        /\ Get(Arena, i) = None <=> absent
        /\ GetMut(Arena, i) = None <=> absent
        /\ IndexOp(Arena, i).panic <=> absent
        /\ IndexMutOp(Arena, i).panic <=> absent
        /\ ~absent =>
            /\ i \in DOMAIN map
            /\ Get(Arena, i) = Some(map[i])
            /\ GetMut(Arena, i) = Some(map[i])
            /\ IndexOp(Arena, i).value = Some(map[i])
            /\ IndexMutOp(Arena, i).value = Some(map[i])

\* An occupied slot, a vacant slot and an index out of bounds are there to be
\* accessed.
C11_Witness ==
    \E i, j, k \in Indices :
        /\ ~IndexOp(Arena, i).panic
        /\ j \in VacantSlots(Arena) /\ IndexOp(Arena, j).panic
        /\ k >= Len(slots) /\ IndexMutOp(Arena, k).panic /\ Get(Arena, k) = None

\* C18 (reserve): a call of reserve(k) or reserve_exact(k) that returns
\* leaves capacity() - len() >= k and changes neither the slots nor len; each
\* of the k inserts that follow it leaves capacity() unchanged.
C18_ReserveRoom ==
    [][/\ (last'.op \in {"reserve", "reserve_exact"} /\ ~last'.panic)
            => /\ cap' - ArenaLen(ArenaAfter) >= last'.arg
               /\ ArenaAfter = Arena
               /\ OccupiedSlots(ArenaAfter) = OccupiedSlots(Arena)
               /\ \A i \in Indices : Get(ArenaAfter, i) = Get(Arena, i)
       /\ (last'.op = "insert" /\ covered.left > 0
            /\ covered.by \in {"reserve", "reserve_exact"})
            => cap' = cap
      ]_vars

\* After a reserve of two or more, as many inserts have followed, the last
\* of them a push that filled the Vec, and the capacity is what it was.
C18_Witness ==
    /\ covered.by = "reserve"
    /\ covered.n >= 2
    /\ covered.left = 0
    /\ last.op = "insert" /\ ~last.panic
    /\ last.idx = Len(slots) - 1
    /\ cap = last.capBefore
    /\ cap = len

\* C19 (capacity): no step lowers capacity(); remove and clear leave it as it
\* is; an insert called with len() < capacity() leaves it unchanged, so each of
\* the first n inserts into with_capacity(n) does, and an insert that raises
\* it was called on a full arena, len() = capacity().
C19_CapacityMonotone ==
    [][/\ cap' >= cap
       /\ Capacity >= len
       /\ last'.op \in {"remove", "clear"} => cap' = cap
       /\ (last'.op = "insert" /\ len < Capacity) => cap' = cap
       /\ (last'.op = "insert" /\ covered.by = "with_capacity" /\ covered.left > 0)
            => cap' = covered.n
       /\ (last'.op = "insert" /\ cap' > cap) => len = Capacity
      ]_vars

\* with_capacity(n), n >= 2, has taken n objects at capacity n, and the insert
\* after them, into the full arena, has raised the capacity.
C19_Witness ==
    /\ covered.by = "with_capacity"
    /\ covered.n >= 2
    /\ covered.left = 0
    /\ last.op = "insert" /\ ~last.panic
    /\ last.lenBefore = covered.n
    /\ last.capBefore = covered.n
    /\ cap > covered.n
    /\ nRem = 0

\* C20 (clear): a call of clear leaves len() = 0, is_empty() true, get None at
\* every index, the iterators empty and capacity() what it was before the
\* call, and the arena in the state of Arena::new(); while no remove has
\* succeeded since the clear, the inserts return 0, 1, 2, ... in order.
C20_Clear ==
    [][/\ last'.op = "clear"
            => /\ ArenaLen(ArenaAfter) = 0
               /\ IsEmpty(ArenaAfter)
               /\ \A i \in Indices : Get(ArenaAfter, i) = None
               /\ IterItems(ArenaAfter) = << >>
               /\ IterMutItems(ArenaAfter) = << >>
               /\ IntoIterItems(ArenaAfter) = << >>
               /\ OccupiedSlots(ArenaAfter) = {}
               /\ cap' = Capacity
               /\ ArenaAfter = ArenaNew
       /\ (cleared /\ last'.op = "insert" /\ nRem = 0)
            => /\ ~last'.panic
               /\ last'.idx = nIns
      ]_vars

\* An arena that was cleared has since taken two inserts, which returned 0
\* and 1, into the capacity it had before them.
C20_Witness ==
    /\ cleared
    /\ prev.op = "insert" /\ prev.idx = 0
    /\ last.op = "insert" /\ last.idx = 1
    /\ ~last.panic
    /\ nRem = 0
    /\ cap = prev.capBefore
    /\ cap > len

C22_NextVacant ==
    [][/\ \A object \in Values :
            /\ ~InsertOp(Arena, object).panic
            /\ InsertOp(Arena, object).idx = NextVacant(Arena)
       /\ last'.op = "insert" => last'.idx = NextVacant(Arena)
       /\ (last.op = "next_vacant" /\ last'.op = "insert") => last'.idx = last.idx
       /\ last'.op = "next_vacant"
            => /\ ArenaAfter = Arena
               /\ cap' = Capacity
               /\ last'.idx = NextVacant(ArenaAfter)
               /\ \A i \in Indices : Get(ArenaAfter, i) = Get(Arena, i)
      ]_vars

\* next_vacant named a vacant slot inside the Vec, others being vacant too,
\* and the insert after it took that slot.
C22_Witness ==
    /\ prev.op = "next_vacant"
    /\ last.op = "insert"
    /\ last.idx = prev.idx
    /\ last.idx # last.lenBefore
    /\ head # UsizeMax
    /\ Get(Arena, last.idx) = Some(last.arg)

\* C23 (clone): a call of clone leaves the arena as it is and yields a clone
\* with the same len, the same get at every index and the same slots and
\* head; after it, a call on the arena leaves the clone as it is and a call
\* on the clone leaves the arena as it is, and the clone stays an arena
\* whose len counts its occupied slots.
C23_Clone ==
    [][/\ (last'.op = "clone" /\ << last', prev' >> # << last, prev >>)
            => /\ copy'.made
               /\ copy'.len = ArenaLen(Arena)
               /\ \A i \in Indices :
                    Get([slots |-> copy'.slots, len |-> copy'.len,
                         head |-> copy'.head], i) = Get(Arena, i)
               /\ copy'.slots = slots
               /\ copy'.head = head
               /\ ArenaAfter = Arena
               /\ cap' = Capacity
       /\ (last'.op # "clone" /\ << last', prev' >> # << last, prev >>)
            => copy' = copy
       /\ copy' # copy
            => /\ ArenaAfter = Arena
               /\ cap' = Capacity
               /\ map' = map
               /\ \A i \in Indices : Get(ArenaAfter, i) = Get(Arena, i)
       /\ copy.len = Cardinality(OccupiedSlots(Copy))
      ]_vars

\* A clone was taken of an arena with a vacant slot below an occupied one;
\* since then the clone has lost an object and the arena has gained one, in
\* the vacant slot, which the clone still lacks.
C23_Witness ==
    /\ copy.made
    /\ prev.op = "clone"
    /\ last.op = "insert"
    /\ last.idx # last.lenBefore
    /\ len = last.lenBefore + 1
    /\ copy.len < last.lenBefore
    /\ Get(Arena, last.idx) # None
    /\ Get(Copy, last.idx) = None

\* C24 (indices in insertion order): in an arena that is new or was
\* collected from an iterator, as long as no remove has succeeded and it was
\* not cleared, the k-th insert (the items collected counted first) returned
\* k - 1: after n inserts the Vec has n slots, the indices 0 .. n - 1 are the
\* occupied ones and index k - 1 holds the k-th object inserted.
C24_InsertionOrder ==
    (nRem = 0 /\ ~cleared)
        => /\ Len(slots) = nIns
           /\ ArenaLen(Arena) = nIns
           /\ OccupiedSlots(Arena) = 0 .. nIns - 1
           /\ DOMAIN map = 0 .. nIns - 1
           /\ \A i \in 0 .. nIns - 1 : Get(Arena, i) = Some(map[i])
           /\ last.op = "insert" => (~last.panic /\ last.idx = nIns - 1)
           /\ IterItems(Arena) = [k \in 1 .. nIns |-> << k - 1, map[k - 1] >>]

\* An arena collected from two different objects has taken one more insert,
\* at index 2.
C24_Witness ==
    /\ prev.op = "from_iter"
    /\ prev.arg = 2
    /\ last.op = "insert"
    /\ last.idx = 2
    /\ nRem = 0 /\ ~cleared
    /\ Get(Arena, 0) # Get(Arena, 1)
    /\ Get(Arena, 2) = Some(last.arg)

\* C25 (swap): swap(a, b) panics exactly when a or b is out of bounds or at
\* a vacant slot, and then leaves the arena unchanged; otherwise the values
\* at a and b are exchanged (nothing changes when a = b), every other index
\* keeps its value, and the occupied slots, len, head and every vacant slot
\* are unchanged.
C25_Swap ==
    [][last'.op = "swap"
        => LET a == last'.arg
               b == last'.idx
               absent(i) == i >= Len(slots) \/ i \in VacantSlots(Arena)
           IN  /\ last'.panic <=> (absent(a) \/ absent(b))
               /\ last'.panic => ArenaAfter = Arena
               /\ ~last'.panic =>
                    /\ Get(ArenaAfter, a) = Get(Arena, b)
                    /\ Get(ArenaAfter, b) = Get(Arena, a)
                    /\ \A i \in Indices \ {a, b} : Get(ArenaAfter, i) = Get(Arena, i)
                    /\ a = b => ArenaAfter = Arena
               /\ OccupiedSlots(ArenaAfter) = OccupiedSlots(Arena)
               /\ VacantSlots(ArenaAfter) = VacantSlots(Arena)
               /\ \A i \in VacantSlots(Arena) : slots'[i + 1] = slots[i + 1]
               /\ Len(slots') = Len(slots)
               /\ ArenaLen(ArenaAfter) = ArenaLen(Arena)
               /\ head' = head
               /\ cap' = Capacity
               /\ \A i \in OccupiedSlots(ArenaAfter) : Get(ArenaAfter, i) = Some(map'[i])
      ]_vars

\* A swap has exchanged two different objects in an arena that also has a
\* vacant slot.
C25_Witness ==
    /\ last.op = "swap"
    /\ ~last.panic
    /\ last.arg # last.idx
    /\ Get(Arena, last.arg) # Get(Arena, last.idx)
    /\ head # UsizeMax
    /\ VacantSlots(Arena) # {}

\* C26 as stated (remove of nothing aborts): a remove(index) with index out
\* of bounds or at a vacant slot, a second remove of the same index included,
\* does not return normally.
C26_RemoveNothingAborts ==
    [][(/\ last'.op = "remove"
        /\ \/ last'.arg >= Len(slots)
           \/ last'.arg \in VacantSlots(Arena))
        => last'.panic ]_vars

\* C26 as amended (remove of nothing returns None): a remove(index) with
\* index out of bounds or at a vacant slot, a second remove of the same index
\* included, returns None normally; it changes neither the arena nor what
\* get returns at any index, and the arena takes further calls.
C26_RemoveNothingReturnsNone ==
    [][/\ (/\ last'.op = "remove"
           /\ \/ last'.arg >= Len(slots)
              \/ last'.arg \in VacantSlots(Arena))
            => /\ ~last'.panic
               /\ last'.opt = None
               /\ ArenaAfter = Arena
               /\ \A i \in Indices : Get(ArenaAfter, i) = Get(Arena, i)
               /\ NextVacant(ArenaAfter) = NextVacant(Arena)
       /\ (/\ last.op = "remove" /\ last.opt # None
           /\ last'.op = "remove" /\ last'.arg = last.arg)
            => (last'.opt = None /\ ~last'.panic)
       /\ last.op = "remove" => ~last.panic
      ]_vars

\* A remove at a vacant slot inside the Vec has returned None and the arena
\* went on to take an insert, into that slot.
C26_Witness ==
    /\ prev.op = "remove"
    /\ prev.opt = None
    /\ prev.arg < Len(slots)
    /\ last.op = "insert"
    /\ ~last.panic
    /\ last.idx = prev.arg

\* C27 (acquire selects a block with a vacant slot): on every call of acquire
\* made while occupied < len, the block selected, the head of the list or,
\* when the list is empty, the last block, is not fully occupied; the offset
\* computed is below the number of slots of a block, so that the assertion
\* offset < bits() holds, and the index returned is the lowest vacant slot of
\* that block.
C27_AcquireBlockHasVacancy ==
    [][(blast'.op = "acquire" /\ BitmapBefore.occupied < BitmapBefore.len)
        => LET block  == AcquireBlock(BitmapBefore)
               vacant == {off \in 0 .. Bits - 1 :
                            ~Marked(BitmapBefore, SlotIndex(block, off))}
           IN  /\ block \in Blocks(BitmapBefore)
               /\ ~FullBlock(BitmapBefore, block)
               /\ vacant # {}
               /\ blast'.panic # "assertion failed: offset < bits()"
               /\ blast'.panic = ""
               /\ blast'.ret = SlotIndex(block, Least(vacant))
      ]_vars

C29_SpliceLastBlockOnce ==
    [][(/\ blast'.op = "reserve_exact" /\ blast'.panic = ""
        /\ BlocksFor(BitmapAfter.len) > BlocksFor(BitmapBefore.len)
        /\ BlocksFor(BitmapBefore.len) > 0)
        => LET oldLast == BlocksFor(BitmapBefore.len) - 1
               IsOld(block) == block \in Blocks(BitmapBefore)
           IN
           /\ ChainEnd(BitmapAfter, BitmapAfter.head, {}) = UsizeMax
           /\ \A j, k \in 1 .. Len(FreeList(BitmapAfter)) :
                FreeList(BitmapAfter)[j] = FreeList(BitmapAfter)[k] => j = k
           /\ (InFreeList(BitmapAfter, oldLast) /\ ~InFreeList(BitmapBefore, oldLast))
                => ~FullBlock(BitmapBefore, oldLast)
           /\ InFreeList(BitmapBefore, oldLast)
                => SelectSeq(FreeList(BitmapAfter), IsOld) = FreeList(BitmapBefore)
      ]_vars

C31_EntriesAddressed ==
    [][/\ ~blast'.ub
       /\ Len(BitmapAfter.data) = 3 * BlocksFor(BitmapAfter.len)
       /\ blast'.panic = ""
            => \A index \in ScanIndices : ~PreviousOccupied(BitmapAfter, index).stray
       /\ (/\ blast'.op = "reserve_exact" /\ blast'.panic = ""
           /\ BlocksFor(BitmapAfter.len) > BlocksFor(BitmapBefore.len)
           /\ BlocksFor(BitmapBefore.len) > 0
           /\ ~FullBlock(BitmapBefore, BlocksFor(BitmapBefore.len) - 1)
           /\ BitmapBefore.head # BlocksFor(BitmapBefore.len) - 1)
           => LET oldLast == BlocksFor(BitmapBefore.len) - 1
                  n       == BitmapAfter.len
              IN
              /\ BitmapAfter.data[SuccessorOff(n, oldLast) + 1] = BitmapBefore.head
              /\ BitmapBefore.head # UsizeMax
                   => BitmapAfter.data[PredecessorOff(n, BitmapBefore.head) + 1] = oldLast
              /\ BlocksFor(n) = BlocksFor(BitmapBefore.len) + 1
                   => BitmapAfter.data[PredecessorOff(n, oldLast) + 1] = UsizeMax
      ]_vars

\* The slots met from `index` on by following the Vacant(next) links, up to
\* the sentinel, to an index that is no vacant slot, or to a slot met before.
RECURSIVE VacantChain(_, _, _)
VacantChain(a, index, seen) ==
    IF index \notin VacantSlots(a) \/ index \in seen THEN << >>
    ELSE << index >> \o VacantChain(a, a.slots[index + 1].x, seen \cup {index})

\* What ends that walk: the sentinel when the list is well formed.
RECURSIVE VacantChainEnd(_, _, _)
VacantChainEnd(a, index, seen) ==
    IF index \notin VacantSlots(a) \/ index \in seen THEN index
    ELSE VacantChainEnd(a, a.slots[index + 1].x, seen \cup {index})

\* C32 (the list of vacant slots): in every state the walk from head along
\* the Vacant(next) links meets every vacant slot, each once, and ends at the
\* sentinel; head is the sentinel exactly when the number of slots is len;
\* head is the sentinel or a vacant slot; and no insert has panicked.
C32_VacantList ==
    /\ VacantChainEnd(Arena, head, {}) = UsizeMax
    /\ {VacantChain(Arena, head, {})[k] : k \in 1 .. Len(VacantChain(Arena, head, {}))}
            = VacantSlots(Arena)
    /\ Len(VacantChain(Arena, head, {})) = Cardinality(VacantSlots(Arena))
    /\ head = UsizeMax <=> Len(slots) = len
    /\ head = UsizeMax \/ head \in VacantSlots(Arena)
    /\ last.op = "insert" => ~last.panic

\* C32 witness: an insert has taken the head of a list of two vacant slots
\* out of three slots; the new head is the vacant slot that is left, whose
\* link is the sentinel.
C32_Witness ==
    /\ last.op = "insert"
    /\ ~last.panic
    /\ prev.op = "remove"
    /\ last.idx = prev.arg
    /\ last.idx \in OccupiedSlots(Arena)
    /\ Len(slots) = 3
    /\ VacantChain(Arena, head, {}) = << head >>
    /\ head # UsizeMax
    /\ slots[head + 1].x = UsizeMax

\* C33 (the insertion protocol): when reserve(1) is called exactly when
\* occupied = len and is followed by acquire, and only occupied slots are
\* released, every acquire returns the index, below len, of a slot that was
\* vacant and is occupied now, and every reserve whose doubling does not
\* overflow returns: it makes len 1 when it was 0 and twice what it was
\* otherwise; no call stores outside the array or reads a word never written.
C33_InsertionProtocol ==
    [][/\ ~blast'.ub /\ ~blast'.junk
       /\ blast'.op = "acquire"
            => /\ blast'.panic = ""
               /\ blast'.ret < BitmapBefore.len
               /\ ~Marked(BitmapBefore, blast'.ret)
               /\ blast'.ret \notin held
               /\ MarkedSlots(BitmapAfter) = MarkedSlots(BitmapBefore) \cup {blast'.ret}
       /\ blast'.op = "reserve"
            => IF 2 * BitmapBefore.len > UsizeMax
               THEN blast'.panic = "len overflow"
               ELSE /\ blast'.panic = ""
                    /\ BitmapAfter.len
                         = IF BitmapBefore.len = 0 THEN 1 ELSE 2 * BitmapBefore.len
      ]_vars

\* C33 witness: after the growth to four blocks and a release out of the
\* first block, which was full, an acquire has returned that block's slot
\* while another slot is vacant.
C33_Witness ==
    /\ blast.op = "acquire"
    /\ blast.panic = ""
    /\ BlocksFor(bitmap.len) = 4
    /\ BlockOf(blast.ret) = 0
    /\ lastFreed = blast.ret
    /\ bitmap.occupied < bitmap.len

\* C34 (count and size_hint of the bitmap's Iter): in every state and at
\* every position of a traversal, count() is the number of slots the
\* iterator still yields, and the upper bound of size_hint() is not below
\* that number.
C34_IterCount ==
    \A index \in IterPositions(bitmap) :
        /\ IterCount(bitmap, index) = Len(IterFrom(bitmap, index))
        /\ IterSizeHint(bitmap, index).high >= Len(IterFrom(bitmap, index))

====
